---- MODULE Spec2Model ----
(***************************************************************************)
(* Model of YOLO_rqrr/train/augment.py: augment_dataset, the pipeline that *)
(* collects (image, label, name) samples from the Kipukas seed tree, the   *)
(* augmented variants and the kolabit tree, shuffles and splits them, and  *)
(* writes the merged dataset and its dataset.yaml.                         *)
(*                                                                         *)
(* Files are records [dir, stem, ext]; the file system is a function from  *)
(* files to contents.  File names are real strings, built with \o exactly  *)
(* as the f-strings of the source build them.                              *)
(***************************************************************************)
EXTENDS Integers, Sequences, FiniteSets, TLC

VARIABLES
    fs,             \* file system: file -> content
    dirs,           \* directories that exist
    unreadable,     \* seed images for which cv2.imread returns None
    throws,         \* <<stem, suffix>>: transform_fn raises on that image
    val_ratio,      \* <<numerator, denominator>> of the val_ratio argument
    pc,             \* position of the run inside augment_dataset
    run,            \* number of the current invocation
    kip_imgs,       \* local kip_imgs
    all_samples,    \* local all_samples
    aug_count,      \* local aug_count
    kolabit_count,  \* local kolabit_count
    train_samples,  \* local train_samples
    val_samples,    \* local val_samples
    warnings,       \* WARN lines printed by this invocation
    manifest,       \* content of train/dataset.yaml, or NoManifest
    pool0,          \* history: all_samples as collected, before the shuffle
    prev,           \* history: what the previous invocation computed
    snap,           \* history: output tree and manifest when the invocation began
    cur_img,        \* shape of local img (line 173), when a transform is studied
    cur_suffix,     \* local suffix (line 177), when a transform is studied
    augmented       \* shape of local augmented (line 179), when a transform is studied

vars == <<fs, dirs, unreadable, throws, val_ratio, pc, run, kip_imgs,
          all_samples, aug_count, kolabit_count, train_samples, val_samples,
          warnings, manifest, pool0, prev, snap, cur_img, cur_suffix, augmented>>

\* what no step of the pipeline changes.  The pipeline specifications keep
\* images abstract (a content token per file), so the three image locals
\* stay NoImage there; the transform specification below gives them shapes.
env == <<unreadable, throws, val_ratio, cur_img, cur_suffix, augmented>>

(***************************************************************************)
(* Bounds of the model.                                                    *)
(***************************************************************************)
\* only the first MaxThrowTags entries of TRANSFORMS may raise
MaxThrowTags == 2
\* the global random state reached before line 231 is one of 0..MaxPrior
MaxPrior == 1
\* augment_dataset is invoked at most MaxRuns times on the same trees
MaxRuns == 2
\* the split step alone is explored on pools of 1..MaxPool samples
MaxPool == 5
\* the transforms are applied to images of 1..MaxDim by 1..MaxDim pixels
MaxDim == 3

(***************************************************************************)
(* Program constants.                                                      *)
(***************************************************************************)
TRANSFORMS ==
    <<"at15", "at11", "at21", "clahe", "blur_at", "stretch_at", "yellow",
      "otsu", "noise15", "jpeg35">>

ShuffleSeed == 42

\* extensions admitted by the kolabit loops, after .lower()
KolabitSuffixes == {".jpg", ".jpeg", ".png"}

(***************************************************************************)
(* Directories: the three roots are distinct arguments.                    *)
(***************************************************************************)
KipImgDir == "kip/images/train"
KipLblDir == "kip/labels/train"
KolTrainImgDir == "kol/images/train"
KolTrainLblDir == "kol/labels/train"
KolValImgDir == "kol/images/val"
KolValLblDir == "kol/labels/val"
AugDir == "out/_augmented"
ImgOut(split) == "out/images/" \o split
LblOut(split) == "out/labels/" \o split
Splits == {"train", "val"}
OutDirs == {ImgOut("train"), LblOut("train"), ImgOut("val"), LblOut("val")}

File(d, s, e) == [dir |-> d, stem |-> s, ext |-> e]
NoManifest == [written |-> FALSE]
NoImage == <<>>

(***************************************************************************)
(* The input trees the model draws from.                                   *)
(***************************************************************************)
SeedStems == {"a", "a_at15"}
SeedStates == {"absent", "nolabel", "unreadable", "ok"}
KolStates == {"nodir", "nolabel", "ok"}
Ratios == {<<1, 5>>, <<1, 2>>, <<3, 2>>}
ThrowTags == {TRANSFORMS[i] : i \in 1..MaxThrowTags}
PriorStates == 0..MaxPrior

\* every file name of the input trees, in the order sorted() gives paths
FileOrder ==
    << [stem |-> "a", ext |-> ".jpg"],
       [stem |-> "a_at15", ext |-> ".jpg"],
       [stem |-> "b", ext |-> ".png"],
       [stem |-> "readme", ext |-> ".md"],
       [stem |-> "v_x", ext |-> ".JPG"],
       [stem |-> "x", ext |-> ".png"] >>

\* str.lower() on the suffixes of the input trees
Lower(e) == IF e = ".JPG" THEN ".jpg" ELSE e

LabelContent(d, s) == "L:" \o d \o "/" \o s
ImageContent(d, s, e) == "I:" \o d \o "/" \o s \o e
\* what cv2.imwrite stores for transform suffix t applied to seed image s
AugContent(s, t) == "A:" \o t \o "(" \o s \o ")"

Entry(f, c) == <<f, c>>
FsOf(S) == [f \in {e[1] : e \in S} |-> (CHOOSE e \in S : e[1] = f)[2]]

Img(d, s, e) == Entry(File(d, s, e), ImageContent(d, s, e))
Lbl(d, s) == Entry(File(d, s, ".txt"), LabelContent(d, s))

SeedTree(st) ==
    {Img(KipImgDir, "b", ".png"), Lbl(KipLblDir, "b")}
    \cup {Img(KipImgDir, s, ".jpg") : s \in {s \in SeedStems : st[s] # "absent"}}
    \cup {Lbl(KipLblDir, s) : s \in {s \in SeedStems : st[s] \in {"unreadable", "ok"}}}

KolTree(imgDir, lblDir, stem, ext, st) ==
    (IF st = "nodir" THEN {}
     ELSE {Img(imgDir, "readme", ".md"), Lbl(lblDir, "readme")})
    \cup (IF st \in {"nolabel", "ok"} THEN {Img(imgDir, stem, ext)} ELSE {})
    \cup (IF st = "ok" THEN {Lbl(lblDir, stem)} ELSE {})

\* what an earlier, unrelated run may have left in the output tree
StaleTree ==
    {Entry(File(ImgOut("train"), "old", ".jpg"), "stale"),
     Entry(File(ImgOut("train"), "kip_a", ".jpg"), "stale"),
     Entry(File(LblOut("train"), "old", ".txt"), "stale"),
     Entry(File(ImgOut("val"), "old", ".png"), "stale"),
     Entry(File(LblOut("val"), "kol_v_x", ".txt"), "stale")}
StaleManifest ==
    [written |-> TRUE, originals |-> 7, augmented |-> 0, kolabit |-> 0,
     total |-> 7, train |-> 6, val |-> 1]

OutputOf(f, m) ==
    [files |-> {e \in {<<p, f[p]>> : p \in DOMAIN f} : e[1].dir \in OutDirs},
     manifest |-> m]

NoPrev == [ran |-> FALSE]

Init ==
    \E seed \in [SeedStems -> SeedStates], kt \in KolStates, kv \in KolStates,
       stale \in BOOLEAN, r \in Ratios,
       th \in SUBSET (SeedStems \X ThrowTags) :
        /\ \A e \in th : seed[e[1]] = "ok"
        /\ fs = FsOf(SeedTree(seed)
                     \cup KolTree(KolTrainImgDir, KolTrainLblDir, "v_x", ".JPG", kt)
                     \cup KolTree(KolValImgDir, KolValLblDir, "x", ".png", kv)
                     \cup (IF stale THEN StaleTree ELSE {}))
        /\ dirs = {KipImgDir, KipLblDir}
                  \cup (IF kt # "nodir" THEN {KolTrainImgDir, KolTrainLblDir} ELSE {})
                  \cup (IF kv # "nodir" THEN {KolValImgDir, KolValLblDir} ELSE {})
                  \cup (IF stale THEN OutDirs ELSE {})
        /\ unreadable = {File(KipImgDir, s, ".jpg") : s \in {s \in SeedStems : seed[s] = "unreadable"}}
        /\ throws = th
        /\ val_ratio = r
        /\ manifest = IF stale THEN StaleManifest ELSE NoManifest
        /\ snap = OutputOf(fs, manifest)
        /\ pc = "start"
        /\ run = 1
        /\ kip_imgs = <<>>
        /\ all_samples = <<>>
        /\ aug_count = 0
        /\ kolabit_count = 0
        /\ train_samples = <<>>
        /\ val_samples = <<>>
        /\ warnings = <<>>
        /\ pool0 = <<>>
        /\ prev = NoPrev
        /\ cur_img = NoImage
        /\ cur_suffix = ""
        /\ augmented = NoImage

(***************************************************************************)
(* pathlib and shutil.                                                     *)
(***************************************************************************)
Exists(f) == f \in DOMAIN fs

\* sorted(d.iterdir()): the files of directory d of file system f, by path
Listing(f, d) ==
    LET InDir(n) == File(d, n.stem, n.ext) \in DOMAIN f
        names == SelectSeq(FileOrder, InDir)
    IN [i \in 1..Len(names) |-> File(d, names[i].stem, names[i].ext)]

Put(f, file, c) == [p \in DOMAIN f \cup {file} |-> IF p = file THEN c ELSE f[p]]

\* shutil.copy2(src, dst) for each <<src, dst>> of ops, in order
RECURSIVE CopyAll(_, _)
CopyAll(f, ops) ==
    IF ops = <<>> THEN f
    ELSE CopyAll(Put(f, Head(ops)[2], f[Head(ops)[1]]), Tail(ops))

\* for f in d.iterdir(): f.unlink(), for each d of ds
Unlink(f, ds) == [p \in {q \in DOMAIN f : q.dir \notin ds} |-> f[p]]

RECURSIVE Flatten(_)
Flatten(ss) == IF ss = <<>> THEN <<>> ELSE Head(ss) \o Flatten(Tail(ss))

(***************************************************************************)
(* Samples: the (img_path, lbl_path, name) tuples of all_samples.  kind    *)
(* and src are history fields: which loop appended the tuple, and the seed *)
(* stem it was made from.                                                  *)
(***************************************************************************)
Sample(img, lbl, name, kind, src) ==
    [img |-> img, lbl |-> lbl, name |-> name, kind |-> kind, src |-> src]

Warn(what, stem, suffix) == [what |-> what, stem |-> stem, suffix |-> suffix]

\* lbl_path.exists(), lines 157, 170, 208, 222
LabelExists_Always(lbl) == TRUE
LabelExists(lbl) == Exists(lbl)

KipLabel(img) == File(KipLblDir, img.stem, ".txt")

(***************************************************************************)
(* 1. Kipukas originals, lines 149-160.                                    *)
(***************************************************************************)
\* sorted((kipukas_dir / "images" / "train").glob("*.jpg"))
GlobJpg(f) ==
    LET IsJpg(p) == p.ext = ".jpg" IN SelectSeq(Listing(f, KipImgDir), IsJpg)

SeedSample(img) ==
    IF LabelExists(KipLabel(img))
    THEN <<Sample(img, KipLabel(img), "kip_" \o img.stem, "kip", img.stem)>>
    ELSE <<>>

SeedWarning(img) ==
    IF LabelExists(KipLabel(img)) THEN <<>> ELSE <<Warn("no label", img.stem, "")>>

CollectSeed ==
    /\ pc = "start"
    /\ LET imgs == GlobJpg(fs) IN
        /\ kip_imgs' = imgs
        /\ all_samples' = all_samples
                \o Flatten([i \in 1..Len(imgs) |-> SeedSample(imgs[i])])
        /\ warnings' = warnings
                \o Flatten([i \in 1..Len(imgs) |-> SeedWarning(imgs[i])])
    /\ pc' = "augment"
    /\ UNCHANGED <<fs, dirs, env, run, aug_count, kolabit_count, train_samples,
                   val_samples, manifest, pool0, prev, snap>>

(***************************************************************************)
(* 2. Augmented Kipukas variants, lines 162-195.                           *)
(***************************************************************************)
\* the images that reach the loop over TRANSFORMS: lines 170 and 174
Augmentable(img) == LabelExists(KipLabel(img)) /\ img \notin unreadable

\* the suffixes whose transform_fn returns on this image: an exception skips
\* that suffix only (continue, line 182)
Survivors_Break(img) ==
    LET n == Len(TRANSFORMS)
        bad == {i \in 1..n : <<img.stem, TRANSFORMS[i]>> \in throws}
        stop == IF bad = {} THEN n + 1 ELSE CHOOSE i \in bad : \A k \in bad : i <= k
    IN SubSeq(TRANSFORMS, 1, stop - 1)
Survivors(img) ==
    LET Returns(t) == <<img.stem, t>> \notin throws IN SelectSeq(TRANSFORMS, Returns)

Failures(img) ==
    LET Raises(t) == <<img.stem, t>> \in throws IN SelectSeq(TRANSFORMS, Raises)

AugName(stem, suffix) == "kip_" \o stem \o "_" \o suffix

AugSample(img, suffix) ==
    Sample(File(AugDir, AugName(img.stem, suffix), ".jpg"),
           File(AugDir, AugName(img.stem, suffix), ".txt"),
           AugName(img.stem, suffix), "aug", img.stem)

\* the (image, suffix) combinations that append a sample, in loop order
AugJobs(img) ==
    IF Augmentable(img)
    THEN LET ok == Survivors(img) IN [i \in 1..Len(ok) |-> <<img, ok[i]>>]
    ELSE <<>>

AugWarnings(img) ==
    IF Augmentable(img)
    THEN LET bad == Failures(img)
         IN [i \in 1..Len(bad) |-> Warn("failed", img.stem, bad[i])]
    ELSE <<>>

\* per combination: cv2.imwrite of the variant (line 186), then shutil.copy2
\* of the seed label beside it (line 190)
RECURSIVE WriteVariants(_, _)
WriteVariants(f, jobs) ==
    IF jobs = <<>> THEN f
    ELSE LET img == Head(jobs)[1]
             suffix == Head(jobs)[2]
             s == AugSample(img, suffix)
             f1 == Put(f, s.img, AugContent(img.stem, suffix))
             f2 == Put(f1, s.lbl, f1[KipLabel(img)])
         IN WriteVariants(f2, Tail(jobs))

Augment ==
    /\ pc = "augment"
    /\ LET jobs == Flatten([i \in 1..Len(kip_imgs) |-> AugJobs(kip_imgs[i])]) IN
        /\ dirs' = dirs \cup {AugDir}
        /\ fs' = WriteVariants(fs, jobs)
        /\ all_samples' = all_samples
                \o [i \in 1..Len(jobs) |-> AugSample(jobs[i][1], jobs[i][2])]
        /\ aug_count' = aug_count + Len(jobs)
        /\ warnings' = warnings
                \o Flatten([i \in 1..Len(kip_imgs) |-> AugWarnings(kip_imgs[i])])
    /\ pc' = "kolabit"
    /\ UNCHANGED <<env, run, kip_imgs, kolabit_count, train_samples, val_samples,
                   manifest, pool0, prev, snap>>

(***************************************************************************)
(* 3. Kolabit originals, lines 197-228.                                    *)
(***************************************************************************)
KolSample(img, lblDir, prefix, kind) ==
    LET lbl == File(lblDir, img.stem, ".txt") IN
    IF Lower(img.ext) \notin KolabitSuffixes THEN <<>>
    ELSE IF ~LabelExists(lbl) THEN <<>>
    ELSE <<Sample(img, lbl, prefix \o img.stem, kind, img.stem)>>

KolSamples(imgDir, lblDir, prefix, kind) ==
    LET imgs == Listing(fs, imgDir)
    IN Flatten([i \in 1..Len(imgs) |-> KolSample(imgs[i], lblDir, prefix, kind)])

\* if kolabit_imgs_dir.exists(), line 202
KolTrainSamples ==
    IF KolTrainImgDir \in dirs
    THEN KolSamples(KolTrainImgDir, KolTrainLblDir, "kol_", "kol")
    ELSE <<>>

\* if kolabit_val_imgs.exists(), line 216
KolValSamples_Nested ==
    IF KolTrainImgDir \in dirs /\ KolValImgDir \in dirs
    THEN KolSamples(KolValImgDir, KolValLblDir, "kol_v_", "kolv")
    ELSE <<>>
KolValSamples ==
    IF KolValImgDir \in dirs
    THEN KolSamples(KolValImgDir, KolValLblDir, "kol_v_", "kolv")
    ELSE <<>>

CollectKolabit ==
    /\ pc = "kolabit"
    /\ all_samples' = all_samples \o KolTrainSamples \o KolValSamples
    /\ kolabit_count' = kolabit_count + Len(KolTrainSamples) + Len(KolValSamples)
    /\ pool0' = all_samples'
    /\ pc' = "split"
    /\ UNCHANGED <<fs, dirs, env, run, kip_imgs, aug_count, train_samples,
                   val_samples, warnings, manifest, prev, snap>>

(***************************************************************************)
(* 4. Shuffle and split, lines 230-238.                                    *)
(***************************************************************************)
\* The generator of the random module, abstracted: a state is a number, one
\* step gives the next state, and a draw below n is read off the state.
RngNext(g) == (g * 37 + 11) % 1024
RandBelow(g, n) == (g \div 8) % n

\* random.seed(42), line 231: the state no longer depends on what it was
RngAtShuffle_Unseeded(prior) == prior
RngAtShuffle(prior) == ShuffleSeed

Swap(x, i, j) ==
    [k \in 1..Len(x) |-> IF k = i THEN x[j] ELSE IF k = j THEN x[i] ELSE x[k]]

\* random.shuffle(x): for i in reversed(range(1, len(x))): j = randbelow(i + 1);
\* x[i], x[j] = x[j], x[i]   (i, j count from 0)
RECURSIVE ShuffleFrom(_, _, _)
ShuffleFrom(x, i, g) ==
    IF i < 1 THEN x
    ELSE LET g1 == RngNext(g)
             j == RandBelow(g1, i + 1)
         IN ShuffleFrom(Swap(x, i + 1, j + 1), i - 1, g1)

Shuffle(x, g) == ShuffleFrom(x, Len(x) - 1, g)

Max(a, b) == IF a >= b THEN a ELSE b
Min(a, b) == IF a <= b THEN a ELSE b

\* max(1, int(len(all_samples) * val_ratio)), line 234
ValCount_NoMinimum(n, r) == (n * r[1]) \div r[2]
ValCount(n, r) == Max(1, (n * r[1]) \div r[2])

\* x[:k] and x[k:] for k >= 0
Take(x, k) == SubSeq(x, 1, Min(k, Len(x)))
Drop_SkipOne(x, k) == SubSeq(x, Min(k, Len(x)) + 2, Len(x))
Drop(x, k) == SubSeq(x, Min(k, Len(x)) + 1, Len(x))

\* lines 232-236 from generator state g
SplitWith(g) ==
    LET shuffled == Shuffle(all_samples, g)
        val_count == ValCount(Len(all_samples), val_ratio)
    IN /\ all_samples' = shuffled
       /\ val_samples' = Take(shuffled, val_count)
       /\ train_samples' = Drop(shuffled, val_count)

ShuffleSplit ==
    /\ pc = "split"
    /\ \E prior \in PriorStates : SplitWith(RngAtShuffle(prior))
    /\ pc' = "clean_train"
    /\ UNCHANGED <<fs, dirs, env, run, kip_imgs, aug_count, kolabit_count,
                   warnings, manifest, pool0, prev, snap>>

(***************************************************************************)
(* 5. Write to output, lines 240-256: per split, mkdir and clean, then     *)
(* copy every sample under its name.                                       *)
(***************************************************************************)
SamplesOf(split) == IF split = "train" THEN train_samples ELSE val_samples

\* for f in img_out.iterdir(): f.unlink(); for f in lbl_out.iterdir(): f.unlink()
CleanExisting_Skip(f, split) == f
CleanExisting(f, split) == Unlink(f, {ImgOut(split), LblOut(split)})

Clean(split) ==
    /\ pc = "clean_" \o split
    /\ dirs' = dirs \cup {ImgOut(split), LblOut(split)}
    /\ fs' = CleanExisting(fs, split)
    /\ pc' = "copy_" \o split
    /\ UNCHANGED <<env, run, kip_imgs, all_samples, aug_count, kolabit_count,
                   train_samples, val_samples, warnings, manifest, pool0, prev, snap>>

\* where lines 255 and 256 put the image and the label of a sample
OutImage(split, s) == File(ImgOut(split), s.name, s.img.ext)
OutLabel(split, s) == File(LblOut(split), s.name, ".txt")

CopyOps(split, s) == << <<s.img, OutImage(split, s)>>, <<s.lbl, OutLabel(split, s)>> >>

Copy(split) ==
    /\ pc = "copy_" \o split
    /\ LET samples == SamplesOf(split)
       IN fs' = CopyAll(fs, Flatten([i \in 1..Len(samples) |-> CopyOps(split, samples[i])]))
    /\ pc' = IF split = "train" THEN "clean_val" ELSE "manifest"
    /\ UNCHANGED <<dirs, env, run, kip_imgs, all_samples, aug_count, kolabit_count,
                   train_samples, val_samples, warnings, manifest, pool0, prev, snap>>

(***************************************************************************)
(* 6. Write dataset.yaml, lines 258-275, and remove the temporary          *)
(* directory, line 278.                                                    *)
(***************************************************************************)
WriteManifest ==
    /\ pc = "manifest"
    /\ manifest' = [written |-> TRUE,
                    originals |-> Len(kip_imgs),
                    augmented |-> aug_count,
                    kolabit |-> kolabit_count,
                    total |-> Len(all_samples),
                    train |-> Len(train_samples),
                    val |-> Len(val_samples)]
    /\ pc' = "cleanup"
    /\ UNCHANGED <<fs, dirs, env, run, kip_imgs, all_samples, aug_count,
                   kolabit_count, train_samples, val_samples, warnings, pool0,
                   prev, snap>>

Cleanup_KeepScratch ==
    /\ pc = "cleanup"
    /\ pc' = "done"
    /\ UNCHANGED <<fs, dirs, env, run, kip_imgs, all_samples, aug_count,
                   kolabit_count, train_samples, val_samples, warnings, manifest,
                   pool0, prev, snap>>
Cleanup ==
    /\ pc = "cleanup"
    /\ fs' = Unlink(fs, {AugDir})
    /\ dirs' = dirs \ {AugDir}
    /\ pc' = "done"
    /\ UNCHANGED <<env, run, kip_imgs, all_samples, aug_count, kolabit_count,
                   train_samples, val_samples, warnings, manifest, pool0, prev, snap>>

(***************************************************************************)
(* The script is run again on the same trees: a new invocation starts from *)
(* fresh locals and from the file system the previous one left.            *)
(***************************************************************************)
FilesIn(f, ds) == {p \in DOMAIN f : p.dir \in ds}

Restart ==
    /\ pc = "done"
    /\ run < MaxRuns
    /\ run' = run + 1
    /\ prev' = [ran |-> TRUE, pool |-> pool0, train |-> train_samples,
                val |-> val_samples, count |-> Cardinality(FilesIn(fs, OutDirs))]
    /\ snap' = OutputOf(fs, manifest)
    /\ kip_imgs' = <<>>
    /\ all_samples' = <<>>
    /\ aug_count' = 0
    /\ kolabit_count' = 0
    /\ train_samples' = <<>>
    /\ val_samples' = <<>>
    /\ warnings' = <<>>
    /\ pool0' = <<>>
    /\ pc' = "start"
    /\ UNCHANGED <<fs, dirs, env, manifest>>

Next ==
    \/ CollectSeed
    \/ Augment
    \/ CollectKolabit
    \/ ShuffleSplit
    \/ \E split \in Splits : Clean(split)
    \/ \E split \in Splits : Copy(split)
    \/ WriteManifest
    \/ Cleanup
    \/ Restart

Spec == Init /\ [][Next]_vars

(***************************************************************************)
(* The split step alone, lines 230-238, on every pool of 1..MaxPool        *)
(* samples and from every state the generator can be seeded to: nothing    *)
(* is assumed about the permutation that seed 42 gives.                    *)
(***************************************************************************)
RngStates == 0..1023

PoolSample(i) ==
    Sample(File(KolTrainImgDir, "p" \o ToString(i), ".jpg"),
           File(KolTrainLblDir, "p" \o ToString(i), ".txt"),
           "kol_p" \o ToString(i), "kol", "p" \o ToString(i))

InitSplit ==
    \E n \in 1..MaxPool, r \in Ratios :
        /\ all_samples = [i \in 1..n |-> PoolSample(i)]
        /\ pool0 = all_samples
        /\ val_ratio = r
        /\ pc = "split"
        /\ fs = FsOf({})
        /\ dirs = {}
        /\ unreadable = {}
        /\ throws = {}
        /\ run = 1
        /\ kip_imgs = <<>>
        /\ aug_count = 0
        /\ kolabit_count = n
        /\ train_samples = <<>>
        /\ val_samples = <<>>
        /\ warnings = <<>>
        /\ manifest = NoManifest
        /\ prev = NoPrev
        /\ snap = OutputOf(fs, manifest)
        /\ cur_img = NoImage
        /\ cur_suffix = ""
        /\ augmented = NoImage

ShuffleSplitAnySeed ==
    /\ pc = "split"
    /\ \E g \in RngStates : SplitWith(g)
    /\ pc' = "clean_train"
    /\ UNCHANGED <<fs, dirs, env, run, kip_imgs, aug_count, kolabit_count,
                   warnings, manifest, pool0, prev, snap>>

SpecSplit == InitSplit /\ [][ShuffleSplitAnySeed]_vars

(***************************************************************************)
(* The rqrr cascade transforms, lines 42-137, on the shape of the image.   *)
(* An image is its numpy shape, <<H, W>> or <<H, W, 3>>.  The OpenCV and   *)
(* numpy calls are modelled by what they do to the shape; a call outside   *)
(* its domain gives Raised.                                                *)
(***************************************************************************)
Raised == <<0>>
IsImage(sh) == Len(sh) \in {2, 3}

\* cv2.cvtColor(img, cv2.COLOR_BGR2GRAY) and cv2.cvtColor(img, cv2.COLOR_GRAY2BGR)
CvtBGR2GRAY(sh) == IF Len(sh) = 3 /\ sh[3] = 3 THEN <<sh[1], sh[2]>> ELSE Raised
CvtGRAY2BGR(sh) == IF Len(sh) = 2 THEN <<sh[1], sh[2], 3>> ELSE Raised

\* grey = cvtColor(...) if len(img.shape) == 3 else img
Grey(sh) == IF Len(sh) = 3 THEN CvtBGR2GRAY(sh) ELSE sh

\* cv2.adaptiveThreshold(src, 255, MEAN_C, BINARY, blockSize, C): one channel,
\* blockSize odd and above 1; the result has the size of src
AdaptiveThreshold(sh, blockSize) ==
    IF Len(sh) = 2 /\ blockSize % 2 = 1 /\ blockSize > 1 THEN sh ELSE Raised

\* clahe.apply, cv2.GaussianBlur with an odd kernel, cv2.threshold: one
\* channel in, the same size out
ClaheApply(sh) == IF Len(sh) = 2 THEN sh ELSE Raised
GaussianBlur(sh, k) == IF IsImage(sh) /\ k % 2 = 1 THEN sh ELSE Raised
Threshold(sh) == IF Len(sh) = 2 THEN sh ELSE Raised

\* an element-wise numpy expression (astype, -, /, *, clip, maximum, +) over
\* arrays of these shapes: the common shape, or an error when they differ
Elementwise(sh1, sh2) == IF IsImage(sh1) /\ sh1 = sh2 THEN sh1 ELSE Raised

\* b, g, r = cv2.split(img): three planes of a 3-channel image
SplitPlane(sh) == IF Len(sh) = 3 /\ sh[3] = 3 THEN <<sh[1], sh[2]>> ELSE Raised

\* cv2.imdecode(cv2.imencode('.jpg', img)[1], cv2.IMREAD_COLOR)
ImdecodeColor(sh) == IF IsImage(sh) THEN <<sh[1], sh[2], 3>> ELSE Raised

adaptive_thresh(sh, block, c) ==
    CvtGRAY2BGR(AdaptiveThreshold(Grey(sh), block * 2 + 1))

adaptive_thresh_fine(sh) == adaptive_thresh(sh, 11, 6)

adaptive_thresh_coarse(sh) == adaptive_thresh(sh, 21, 10)

clahe_transform(sh) == CvtGRAY2BGR(ClaheApply(Grey(sh)))

\* a half-size blur (cv2.pyrDown) in place of cv2.GaussianBlur
blur_adaptive_PyrDown(sh) ==
    LET g == Grey(sh)
        half == IF Len(g) = 2 THEN <<(g[1] + 1) \div 2, (g[2] + 1) \div 2>> ELSE Raised
    IN CvtGRAY2BGR(AdaptiveThreshold(half, 31))
blur_adaptive(sh) ==
    CvtGRAY2BGR(AdaptiveThreshold(GaussianBlur(Grey(sh), 5), 31))

\* hi == lo or not, stretched has the shape of grey
contrast_stretch_adaptive(sh) ==
    CvtGRAY2BGR(AdaptiveThreshold(Elementwise(Grey(sh), Grey(sh)), 31))

yellow_aware(sh) ==
    IF Len(sh) = 2 THEN CvtGRAY2BGR(sh)
    ELSE CvtGRAY2BGR(Elementwise(Elementwise(SplitPlane(sh), SplitPlane(sh)),
                                 SplitPlane(sh)))

otsu_thresh(sh) == CvtGRAY2BGR(Threshold(Grey(sh)))

\* noise = np.random.normal(0, sigma, img.shape); img + noise, clipped
gaussian_noise(sh) == Elementwise(sh, sh)

jpeg_compress(sh) == ImdecodeColor(sh)

\* the (suffix, transform_fn) pairs of TRANSFORMS
TransformFn(sfx, sh) ==
    CASE sfx = "at15" -> adaptive_thresh(sh, 15, 8)
      [] sfx = "at11" -> adaptive_thresh_fine(sh)
      [] sfx = "at21" -> adaptive_thresh_coarse(sh)
      [] sfx = "clahe" -> clahe_transform(sh)
      [] sfx = "blur_at" -> blur_adaptive(sh)
      [] sfx = "stretch_at" -> contrast_stretch_adaptive(sh)
      [] sfx = "yellow" -> yellow_aware(sh)
      [] sfx = "otsu" -> otsu_thresh(sh)
      [] sfx = "noise15" -> gaussian_noise(sh)
      [] sfx = "jpeg35" -> jpeg_compress(sh)

\* every H x W image, grey or BGR, with 1 <= H, W <= MaxDim
Shapes ==
    {<<h, w>> : h \in 1..MaxDim, w \in 1..MaxDim}
    \cup {<<h, w, 3>> : h \in 1..MaxDim, w \in 1..MaxDim}

InitTransform ==
    \E sh \in Shapes :
        /\ cur_img = sh
        /\ cur_suffix = ""
        /\ augmented = NoImage
        /\ pc = "augment"
        /\ fs = FsOf({})
        /\ dirs = {}
        /\ unreadable = {}
        /\ throws = {}
        /\ val_ratio = <<1, 5>>
        /\ run = 1
        /\ kip_imgs = <<>>
        /\ all_samples = <<>>
        /\ aug_count = 0
        /\ kolabit_count = 0
        /\ train_samples = <<>>
        /\ val_samples = <<>>
        /\ warnings = <<>>
        /\ manifest = NoManifest
        /\ pool0 = <<>>
        /\ prev = NoPrev
        /\ snap = OutputOf(fs, manifest)

\* augmented = transform_fn(img), line 179, for one entry of TRANSFORMS
ApplyTransform ==
    /\ pc = "augment"
    /\ cur_img # NoImage
    /\ \E i \in 1..Len(TRANSFORMS) :
        /\ cur_suffix' = TRANSFORMS[i]
        /\ augmented' = TransformFn(TRANSFORMS[i], cur_img)
    /\ UNCHANGED <<fs, dirs, unreadable, throws, val_ratio, pc, run, kip_imgs,
                   all_samples, aug_count, kolabit_count, train_samples,
                   val_samples, warnings, manifest, pool0, prev, snap, cur_img>>

SpecTransform == InitTransform /\ [][ApplyTransform]_vars

(***************************************************************************)
(* Vocabulary of the properties.                                           *)
(***************************************************************************)
Collected == pc \notin {"start", "augment", "kolabit"}
SplitDone == pc \notin {"start", "augment", "kolabit", "split"}
Written == pc \in {"manifest", "cleanup", "done"}

Positions(x) == 1..Len(x)
CountKind(x, kinds) == Cardinality({i \in Positions(x) : x[i].kind \in kinds})
CountFrom(x, stem) ==
    Cardinality({i \in Positions(x) : x[i].kind \in {"kip", "aug"} /\ x[i].src = stem})

\* the seed images the first loop sees, and those of them that have a label
SeedImages == {p \in DOMAIN fs : p.dir = KipImgDir /\ p.ext = ".jpg"}
Labelled(p) == File(KipLblDir, p.stem, ".txt") \in DOMAIN fs
RaisedOn(p) == {t \in {TRANSFORMS[i] : i \in 1..Len(TRANSFORMS)} : <<p.stem, t>> \in throws}

\* floor(n * r) for r = r[1] / r[2]
FloorOf(n, r) ==
    CHOOSE k \in 0..(n * r[1]) : k * r[2] <= n * r[1] /\ n * r[1] < (k + 1) * r[2]
RatioInUnitInterval == 0 < val_ratio[1] /\ val_ratio[1] < val_ratio[2]

C2_EmptyPoolWritesNothing ==
    (Collected /\ Len(all_samples) = 0) => OutputOf(fs, manifest) = snap

(***************************************************************************)
(* C3. Determinism: an invocation that collected the same pool, in the     *)
(* same order, as the previous invocation puts every sample in the same    *)
(* subset, whatever the state of the generator was before line 231.        *)
(***************************************************************************)
C3_Deterministic ==
    (SplitDone /\ prev.ran /\ prev.pool = pool0) =>
        /\ train_samples = prev.train
        /\ val_samples = prev.val

C3_Witness ==
    /\ pc = "done"
    /\ prev.ran
    /\ prev.pool = pool0
    /\ all_samples # pool0
    /\ Len(train_samples) >= 2
    /\ Len(val_samples) >= 2

(***************************************************************************)
(* C4. Provenance names are unique: no two samples of the pool have the    *)
(* same name.                                                              *)
(***************************************************************************)
C4_NamesUnique ==
    \A i, j \in Positions(all_samples) :
        i # j => all_samples[i].name # all_samples[j].name

(***************************************************************************)
(* C5. Label fidelity: once the splits are written, the label stored under *)
(* the name of an augmented sample has the content of the label file of    *)
(* the seed image the sample was made from.                                *)
(***************************************************************************)
C5_LabelFidelity ==
    Written =>
        \A split \in Splits :
            \A i \in Positions(SamplesOf(split)) :
                LET s == SamplesOf(split)[i]
                    out == File(LblOut(split), s.name, ".txt")
                IN s.kind = "aug" =>
                    /\ out \in DOMAIN fs
                    /\ fs[out] = fs[File(KipLblDir, s.src, ".txt")]

(***************************************************************************)
(* C6. Idempotent output: after a completed invocation the four output     *)
(* directories hold exactly the files of this invocation's samples, and a  *)
(* second invocation on the same inputs leaves as many files as the first. *)
(***************************************************************************)
C6_OutputIsCurrentPool ==
    pc = "done" =>
        /\ \A split \in Splits :
            LET x == SamplesOf(split) IN
            /\ FilesIn(fs, {ImgOut(split)})
                 = {File(ImgOut(split), x[i].name, x[i].img.ext) : i \in Positions(x)}
            /\ FilesIn(fs, {LblOut(split)})
                 = {File(LblOut(split), x[i].name, ".txt") : i \in Positions(x)}
        /\ prev.ran => Cardinality(FilesIn(fs, OutDirs)) = prev.count

\* a second invocation has completed over the non-empty output of the first,
\* which itself replaced what an earlier run had left
C6_Witness ==
    /\ pc = "done"
    /\ prev.ran
    /\ prev.count > 0
    /\ Cardinality(FilesIn(fs, OutDirs)) = prev.count
    /\ snap.files # {}

LabelOf(s) ==
    IF s.kind = "aug" THEN fs[File(KipLblDir, s.src, ".txt")] ELSE fs[s.lbl]
\* content of the image file of sample s when it was collected
ImageOf(s) ==
    IF s.kind = "aug"
    THEN CHOOSE c \in {AugContent(s.src, TRANSFORMS[i]) : i \in 1..Len(TRANSFORMS)} :
            \E i \in 1..Len(TRANSFORMS) :
                c = AugContent(s.src, TRANSFORMS[i]) /\ s.name = AugName(s.src, TRANSFORMS[i])
    ELSE fs[s.img]

C8_Correspondence ==
    Written =>
        \A split \in Splits :
            \A p \in FilesIn(fs, {ImgOut(split)}) :
                /\ File(LblOut(split), p.stem, ".txt") \in DOMAIN fs
                /\ \A i \in Positions(SamplesOf(split)) :
                    LET s == SamplesOf(split)[i] IN
                    (File(ImgOut(split), s.name, s.img.ext) = p /\ ImageOf(s) = fs[p])
                        => fs[File(LblOut(split), p.stem, ".txt")] = LabelOf(s)

(***************************************************************************)
(* C9. Admission: a sample is in the pool only if its label file exists;   *)
(* a seed image without a label gives one warning and no sample, original  *)
(* or augmented; a kolabit image without a label gives no sample.          *)
(***************************************************************************)
C9_Admission ==
    /\ \A i \in Positions(all_samples) :
        LET s == all_samples[i] IN
        /\ s.kind \in {"kip", "kol", "kolv"} => s.lbl \in DOMAIN fs
        /\ s.kind = "aug" => File(KipLblDir, s.src, ".txt") \in DOMAIN fs
    /\ pc # "start" =>
        \A p \in SeedImages :
            ~Labelled(p) =>
                /\ CountFrom(all_samples, p.stem) = 0
                /\ Cardinality({i \in Positions(warnings) :
                                    warnings[i] = Warn("no label", p.stem, "")}) = 1
    /\ Collected =>
        \A p \in FilesIn(fs, {KolTrainImgDir, KolValImgDir}) :
            LET lblDir == IF p.dir = KolTrainImgDir THEN KolTrainLblDir ELSE KolValLblDir
            IN File(lblDir, p.stem, ".txt") \notin DOMAIN fs =>
                    \A i \in Positions(all_samples) : all_samples[i].img # p

\* a run completed although a seed image and a kolabit image had no label,
\* and the labelled seed image was admitted
C9_Witness ==
    /\ pc = "done"
    /\ \E p \in SeedImages : ~Labelled(p)
    /\ \E p \in SeedImages : Labelled(p) /\ CountFrom(all_samples, p.stem) > 1
    /\ File(KolTrainImgDir, "v_x", ".JPG") \in DOMAIN fs
    /\ File(KolTrainLblDir, "v_x", ".txt") \notin DOMAIN fs
    /\ Len(warnings) = 1

(***************************************************************************)
(* C10. An absent kolabit subtree contributes no sample and hides neither  *)
(* the other subtree nor the seed samples: each subtree contributes        *)
(* exactly its labelled images of an admitted extension.                   *)
(***************************************************************************)
Eligible(imgDir, lblDir) ==
    {p \in DOMAIN fs : /\ p.dir = imgDir
                       /\ Lower(p.ext) \in {".jpg", ".jpeg", ".png"}
                       /\ File(lblDir, p.stem, ".txt") \in DOMAIN fs}

C10_AbsentSubtree ==
    Collected =>
        /\ KolTrainImgDir \notin dirs => CountKind(all_samples, {"kol"}) = 0
        /\ KolValImgDir \notin dirs => CountKind(all_samples, {"kolv"}) = 0
        /\ CountKind(all_samples, {"kol"})
             = Cardinality(Eligible(KolTrainImgDir, KolTrainLblDir))
        /\ CountKind(all_samples, {"kolv"})
             = Cardinality(Eligible(KolValImgDir, KolValLblDir))
        /\ CountKind(all_samples, {"kip"})
             = Cardinality({p \in SeedImages : Labelled(p)})
        /\ CountKind(all_samples, {"aug"}) = aug_count
        /\ kolabit_count = CountKind(all_samples, {"kol", "kolv"})

\* images/train is absent, images/val is ingested, the seed samples stay,
\* and the run completes
C10_Witness ==
    /\ pc = "done"
    /\ KolTrainImgDir \notin dirs
    /\ KolValImgDir \in dirs
    /\ CountKind(all_samples, {"kolv"}) = 1
    /\ CountKind(all_samples, {"kip"}) >= 1

\* neither subtree exists and the run completes on the seed samples alone
C10_WitnessNoRoot ==
    /\ pc = "done"
    /\ KolTrainImgDir \notin dirs
    /\ KolValImgDir \notin dirs
    /\ Len(all_samples) >= 1

(***************************************************************************)
(* C12. Materialization order: the directories of a split are empty when   *)
(* its copies begin; the temporary directory and every augmented file in   *)
(* it stay until all samples of both splits are in the output; at the end  *)
(* dataset.yaml holds this invocation's counts and the temporary directory *)
(* is gone.                                                                *)
(***************************************************************************)
C12_MaterializationOrder ==
    /\ \A split \in Splits :
        pc = "copy_" \o split => FilesIn(fs, {ImgOut(split), LblOut(split)}) = {}
    /\ pc \in {"kolabit", "split", "clean_train", "copy_train", "clean_val",
               "copy_val", "manifest", "cleanup"} =>
        /\ AugDir \in dirs
        /\ \A i \in Positions(all_samples) :
            all_samples[i].kind = "aug" =>
                /\ all_samples[i].img \in DOMAIN fs
                /\ all_samples[i].lbl \in DOMAIN fs
    /\ Written =>
        \A split \in Splits :
            \A i \in Positions(SamplesOf(split)) :
                LET s == SamplesOf(split)[i] IN
                /\ File(ImgOut(split), s.name, s.img.ext) \in DOMAIN fs
                /\ File(LblOut(split), s.name, ".txt") \in DOMAIN fs
    /\ pc \in {"cleanup", "done"} =>
        /\ manifest.written
        /\ manifest.total = Len(all_samples)
        /\ manifest.train = Len(train_samples)
        /\ manifest.val = Len(val_samples)
        /\ manifest.augmented = aug_count
    /\ pc = "done" =>
        /\ AugDir \notin dirs
        /\ FilesIn(fs, {AugDir}) = {}

\* a run over an output tree that held other files has completed, with
\* augmented samples in both splits
C12_Witness ==
    /\ pc = "done"
    /\ snap.files # {}
    /\ CountKind(train_samples, {"aug"}) >= 1
    /\ CountKind(val_samples, {"aug"}) >= 1
    /\ AugDir \notin dirs
    /\ manifest.written

(***************************************************************************)
(* C13. The counts of dataset.yaml are consistent: originals + augmented + *)
(* kolabit = total = train + val = number of samples in the pool.          *)
(***************************************************************************)
C13_ManifestConsistent ==
    pc \in {"cleanup", "done"} =>
        /\ manifest.originals + manifest.augmented + manifest.kolabit = manifest.total
        /\ manifest.total = manifest.train + manifest.val
        /\ manifest.total = Len(all_samples)

(***************************************************************************)
(* C14. The split is a partition: every sample of a non-empty pool is in   *)
(* exactly one of train_samples and val_samples, whatever permutation the  *)
(* shuffle gives; val_samples is never empty; for a ratio in (0,1)         *)
(* train_samples is non-empty when the pool has at least 2 samples and     *)
(* empty when it has exactly 1.                                            *)
(***************************************************************************)
Occurrences(x, s) == Cardinality({i \in Positions(x) : x[i] = s})

C14_Partition ==
    (SplitDone /\ Len(pool0) >= 1) =>
        /\ Len(train_samples) + Len(val_samples) = Len(pool0)
        /\ \A i \in Positions(pool0) :
            Occurrences(train_samples, pool0[i]) + Occurrences(val_samples, pool0[i]) = 1
        /\ Len(val_samples) >= 1
        /\ (RatioInUnitInterval /\ Len(pool0) >= 2) => Len(train_samples) >= 1
        /\ (RatioInUnitInterval /\ Len(pool0) = 1) => Len(train_samples) = 0

\* a pool of 4 came out of the shuffle reversed and was cut in two halves
C14_Witness ==
    /\ pc = "clean_train"
    /\ Len(pool0) = 4
    /\ val_ratio = <<1, 2>>
    /\ all_samples = [i \in 1..4 |-> pool0[5 - i]]
    /\ val_samples = <<pool0[4], pool0[3]>>
    /\ train_samples = <<pool0[2], pool0[1]>>

\* the single sample of a pool of 1 is the validation subset
C14_WitnessSingle ==
    /\ pc = "clean_train"
    /\ Len(pool0) = 1
    /\ val_samples = pool0
    /\ train_samples = <<>>

(***************************************************************************)
(* C11. Non-spatial invariant: each of the ten operators of TRANSFORMS,    *)
(* applied to an H x W image, returns an image of H x W pixels.            *)
(***************************************************************************)
C11_NonSpatial ==
    cur_suffix # "" =>
        /\ augmented # Raised
        /\ IsImage(augmented)
        /\ augmented[1] = cur_img[1]
        /\ augmented[2] = cur_img[2]

\* the blur operator has been applied to a BGR image that is not square
C11_Witness ==
    /\ cur_suffix = "blur_at"
    /\ cur_img = <<2, 3, 3>>
    /\ augmented = <<2, 3, 3>>

====
